---- MODULE Spec2Model ----
(***************************************************************************)
(* Model of the real-estate conversation engine:                           *)
(*   chat-app/agents/tools.py           text extractors and collaborators  *)
(*   chat-app/agents/config_manager.py  agent configuration with a cache   *)
(*   chat-app/agents/real_estate_agent.py  the conversation graph          *)
(*   chat-app/chat.py                   the chat and admin endpoints       *)
(* Texts are TLA+ strings; the extractors read them character by           *)
(* character, the way the regular expressions of tools.py do.              *)
(***************************************************************************)
EXTENDS Integers, Sequences, FiniteSets, TLC

(***************************************************************************)
(* Characters and strings (Python str methods used by the code).           *)
(***************************************************************************)
UpperAlpha == "ABCDEFGHIJKLMNOPQRSTUVWXYZ"
LowerAlpha == "abcdefghijklmnopqrstuvwxyz"
DigitChars == "0123456789"

\* s[i] as a one-character string, "" outside the string
Ch(s, i) == IF i >= 1 /\ i <= Len(s) THEN SubSeq(s, i, i) ELSE ""

CharsOf(a) == {SubSeq(a, i, i) : i \in 1..Len(a)}
UpperChars == CharsOf(UpperAlpha)
AlphaChars == CharsOf(UpperAlpha) \cup CharsOf(LowerAlpha)
DigitSet == CharsOf(DigitChars)

IsDigit(c) == c \in DigitSet
IsAlpha(c) == c \in AlphaChars
IsSpace(c) == c \in {" ", "\t", "\n", "\r"}
\* \w of the re module
IsWord(c) == IsAlpha(c) \/ IsDigit(c) \/ c = "_"

\* the lower-case letter of each upper-case letter
LowerOf ==
    [c \in UpperChars |->
        LET k == CHOOSE i \in 1..Len(UpperAlpha) : SubSeq(UpperAlpha, i, i) = c
        IN  SubSeq(LowerAlpha, k, k)]

\* the value of each decimal digit
DigitValue ==
    [c \in DigitSet |-> (CHOOSE i \in 1..Len(DigitChars) : SubSeq(DigitChars, i, i) = c) - 1]

LowerCh(c) == IF c \in UpperChars THEN LowerOf[c] ELSE c

RECURSIVE LowerFrom(_, _)
LowerFrom(s, i) ==
    IF i > Len(s) THEN "" ELSE LowerCh(SubSeq(s, i, i)) \o LowerFrom(s, i + 1)

\* str.lower()
lower(s) == LowerFrom(s, 1)

\* str.strip()
strip(s) ==
    LET keep == {i \in 1..Len(s) : ~IsSpace(SubSeq(s, i, i))}
    IN  IF keep = {} THEN ""
        ELSE LET a == CHOOSE i \in keep : \A j \in keep : i <= j
                 b == CHOOSE i \in keep : \A j \in keep : i >= j
             IN  SubSeq(s, a, b)

\* the `in` operator on strings: w occurs in s
Contains(s, w) ==
    \E i \in 1..(Len(s) - Len(w) + 1) : SubSeq(s, i, i + Len(w) - 1) = w

\* any(word in s for word in words)
ContainsAny(s, words) == \E w \in words : Contains(s, w)

RECURSIVE RemoveFrom(_, _, _)
RemoveFrom(s, c, i) ==
    IF i > Len(s) THEN ""
    ELSE (IF SubSeq(s, i, i) = c THEN "" ELSE SubSeq(s, i, i)) \o RemoveFrom(s, c, i + 1)

\* str.replace(c, '')
Remove(s, c) == RemoveFrom(s, c, 1)

RECURSIVE IntOf(_, _)
IntOf(s, n) ==
    IF n = 0 THEN 0 ELSE 10 * IntOf(s, n - 1) + DigitValue[SubSeq(s, n, n)]

\* int(s) for a string of decimal digits
int(s) == IntOf(s, Len(s))

Min(S) == CHOOSE x \in S : \A y \in S : x <= y
Max(S) == CHOOSE x \in S : \A y \in S : x >= y

(***************************************************************************)
(* Dictionaries are functions; dict.update and {**a, **b}.                 *)
(***************************************************************************)
EmptyDict == [k \in {} |-> 0]

update(d, e) ==
    [k \in (DOMAIN d) \cup (DOMAIN e) |-> IF k \in DOMAIN e THEN e[k] ELSE d[k]]

\* dict.get(key, default)
get(d, key, default) == IF key \in DOMAIN d THEN d[key] ELSE default

(***************************************************************************)
(* Regular-expression matching.  A match is a record: found, the groups    *)
(* captured, and the whole matched text.                                   *)
(***************************************************************************)
NoMatch == [found |-> FALSE, groups |-> <<>>, text |-> ""]
Match(gs, whole) == [found |-> TRUE, groups |-> gs, text |-> whole]

\* the positions of s a match can start at
Positions(s) == 1..(Len(s) + 1)

\* re.search: ms[i] is the match of the pattern at position i; the match at
\* the leftmost position that has one
search(ms) ==
    LET hits == {i \in DOMAIN ms : ms[i].found}
    IN  IF hits = {} THEN NoMatch ELSE ms[Min(hits)]

\* a literal word at position i, under re.IGNORECASE
LitAt(s, i, w) ==
    /\ i >= 1
    /\ i + Len(w) - 1 <= Len(s)
    /\ lower(SubSeq(s, i, i + Len(w) - 1)) = w

\* \s* from position i: the position after the whitespace run
RECURSIVE SkipSpace(_, _)
SkipSpace(s, i) == IF IsSpace(Ch(s, i)) THEN SkipSpace(s, i + 1) ELSE i

\* \$? from position i
SkipDollar(s, i) == IF Ch(s, i) = "$" THEN i + 1 ELSE i

\* \d{1,3} greedy: number of digits taken from position i (0: no match)
Digits3(s, i) ==
    IF ~IsDigit(Ch(s, i)) THEN 0
    ELSE IF ~IsDigit(Ch(s, i + 1)) THEN 1
    ELSE IF ~IsDigit(Ch(s, i + 2)) THEN 2 ELSE 3

\* (?:,\d{3})* greedy from position j: the position after the groups
RECURSIVE SkipGroups(_, _)
SkipGroups(s, j) ==
    IF /\ Ch(s, j) = ","
       /\ IsDigit(Ch(s, j + 1)) /\ IsDigit(Ch(s, j + 2)) /\ IsDigit(Ch(s, j + 3))
    THEN SkipGroups(s, j + 4) ELSE j

\* \d{1,3}(?:,\d{3})*(?:k|K)? from position i: the position after the
\* amount, 0 when there is no digit at i.  Every part after the first digit
\* is optional and what a part leaves behind (a digit, a comma group, a k)
\* is never what the following pattern element accepts, so the greedy
\* choice is the one the backtracking matcher returns.
AmountEnd(s, i) ==
    LET d == Digits3(s, i)
        g == SkipGroups(s, i + d)
    IN  IF d = 0 THEN 0
        ELSE IF Ch(s, g) \in {"k", "K"} THEN g + 1 ELSE g

(***************************************************************************)
(* tools.py: RealEstateTools.                                              *)
(***************************************************************************)

\* _parse_price: strip ',' and '$'; a trailing k multiplies by 1000
_parse_price(price_str) ==
    LET p == Remove(Remove(price_str, ","), "$")
        n == Len(p)
    IN  IF n > 0 /\ lower(SubSeq(p, n, n)) = "k"
        THEN int(SubSeq(p, 1, n - 1)) * 1000
        ELSE int(p)

\* price_patterns[0]: \$(AMOUNT)\s*(?:to|-)\s*\$?(AMOUNT), IGNORECASE
RangeAt(s, i) ==
    LET e1 == AmountEnd(s, i + 1)
        j  == SkipSpace(s, e1)
        a  == IF LitAt(s, j, "to") THEN j + 2
              ELSE IF Ch(s, j) = "-" THEN j + 1 ELSE 0
        k  == SkipDollar(s, SkipSpace(s, a))
        e2 == AmountEnd(s, k)
    IN  IF Ch(s, i) = "$" /\ e1 > 0 /\ a > 0 /\ e2 > 0
        THEN Match(<<SubSeq(s, i + 1, e1 - 1), SubSeq(s, k, e2 - 1)>>,
                   SubSeq(s, i, e2 - 1))
        ELSE NoMatch

\* price_patterns[1]: under\s*\$?(AMOUNT), IGNORECASE
UnderAt(s, i) ==
    LET k == SkipDollar(s, SkipSpace(s, i + 5))
        e == AmountEnd(s, k)
    IN  IF LitAt(s, i, "under") /\ e > 0
        THEN Match(<<SubSeq(s, k, e - 1)>>, SubSeq(s, i, e - 1))
        ELSE NoMatch

\* price_patterns[2]: up\s*to\s*\$?(AMOUNT), IGNORECASE
UpToAt(s, i) ==
    LET j == SkipSpace(s, i + 2)
        k == SkipDollar(s, SkipSpace(s, j + 2))
        e == AmountEnd(s, k)
    IN  IF LitAt(s, i, "up") /\ LitAt(s, j, "to") /\ e > 0
        THEN Match(<<SubSeq(s, k, e - 1)>>, SubSeq(s, i, e - 1))
        ELSE NoMatch

\* the upper-bound phrases taking precedence over the range
first_match_bounds_first(a, b, c) == IF b.found THEN b ELSE IF c.found THEN c ELSE a

\* `for pattern in patterns: match = re.search(...); if match: ...; break`:
\* the match of the first pattern that has one
first_match(a, b, c) == IF a.found THEN a ELSE IF b.found THEN b ELSE c

\* the first of price_patterns that matches anywhere in the text
price_match(s) ==
    first_match(search([i \in Positions(s) |-> RangeAt(s, i)]),
                search([i \in Positions(s) |-> UnderAt(s, i)]),
                search([i \in Positions(s) |-> UpToAt(s, i)]))

\* the end of the run of digits that starts at i (\d+ greedy)
RECURSIVE SkipDigits(_, _)
SkipDigits(s, i) == IF IsDigit(Ch(s, i)) THEN SkipDigits(s, i + 1) ELSE i

\* (\d+)\s*(?:bed|bedroom), IGNORECASE
BedroomAt(s, i) ==
    LET e == SkipDigits(s, i)
        j == SkipSpace(s, e)
    IN  IF e > i /\ LitAt(s, j, "bed")
        THEN Match(<<SubSeq(s, i, e - 1)>>, SubSeq(s, i, j + 2))
        ELSE NoMatch

\* [A-Za-z\s]
IsPlaceCh(c) == IsAlpha(c) \/ IsSpace(c)

\* <prep>\s+([A-Za-z\s]+?)(?:\s|$|,), IGNORECASE.  \s+ is greedy and gives
\* whitespace back only when the rest fails; the capture is lazy: for the
\* longest whitespace run w that lets the rest match, the shortest capture
\* that is followed by whitespace, a comma or the end of the text.
PrepAt(s, i, prep) ==
    LET n  == Len(s)
        p  == i + Len(prep)
        ws == SkipSpace(s, p) - p
        ok(w, l) == /\ p + w + l - 1 <= n
                    /\ \A j \in (p + w)..(p + w + l - 1) : IsPlaceCh(Ch(s, j))
                    /\ \/ p + w + l - 1 = n
                       \/ IsSpace(Ch(s, p + w + l))
                       \/ Ch(s, p + w + l) = ","
        W  == {w \in 1..ws : \E l \in 1..n : ok(w, l)}
    IN  IF LitAt(s, i, prep) /\ ws >= 1 /\ W # {}
        THEN LET w == Max(W)
                 l == Min({x \in 1..n : ok(w, x)})
             IN  Match(<<SubSeq(s, p + w, p + w + l - 1)>>, SubSeq(s, i, Min({n, p + w + l})))
        ELSE NoMatch

\* location_patterns[0] and [1]
InAt(s, i) == PrepAt(s, i, "in")
NearAt(s, i) == PrepAt(s, i, "near")

\* the location loop: the first pattern that matches decides, and its
\* capture is kept only when longer than 2 characters after strip()
location_criteria(s) ==
    LET a == search([i \in Positions(s) |-> InAt(s, i)])
        b == search([i \in Positions(s) |-> NearAt(s, i)])
        m == IF a.found THEN a ELSE b
    IN  IF m.found /\ Len(strip(m.groups[1])) > 2
        THEN [location |-> strip(m.groups[1])]
        ELSE EmptyDict

\* the body of the price loop for the match m: two groups are a range,
\* one group is a maximum
price_of_match(m) ==
    IF ~m.found THEN EmptyDict
    ELSE IF Len(m.groups) = 2
         THEN [price_min |-> _parse_price(m.groups[1]),
               price_max |-> _parse_price(m.groups[2])]
         ELSE [price_max |-> _parse_price(m.groups[1])]

price_criteria(s) == price_of_match(price_match(s))

bedroom_criteria(s) ==
    LET m == search([i \in Positions(s) |-> BedroomAt(s, i)])
    IN  IF m.found THEN [bedrooms |-> int(m.groups[1])] ELSE EmptyDict

extract_search_criteria(user_input) ==
    update(update(price_criteria(user_input), bedroom_criteria(user_input)),
           location_criteria(user_input))

\* search_properties: the mock catalogue, mock_properties[:3]
search_properties(criteria) ==
    << [id |-> "prop_001", address |-> "123 Oak Street, Downtown", price |-> 450000,
        bedrooms |-> 3, bathrooms |-> "2.5", property_type |-> "house",
        description |-> "Beautiful single-family home"],
       [id |-> "prop_002", address |-> "456 Pine Avenue, Midtown", price |-> 320000,
        bedrooms |-> 2, bathrooms |-> "2", property_type |-> "condo",
        description |-> "Modern condo with city views"] >>

\* \$?(AMOUNT), case-sensitive: the first amount anywhere in the text
BudgetAt(s, i) ==
    LET k == SkipDollar(s, i)
        e == AmountEnd(s, k)
    IN  IF e > 0 THEN Match(<<SubSeq(s, k, e - 1)>>, SubSeq(s, i, e - 1)) ELSE NoMatch

\* \b at position i: exactly one of s[i-1], s[i] is a word character
Boundary(s, i) == IsWord(Ch(s, i - 1)) # IsWord(Ch(s, i))

\* [A-Za-z0-9._%+-], [A-Za-z0-9.-] and [A-Z|a-z]
IsLocalCh(c) == IsAlpha(c) \/ IsDigit(c) \/ c \in {".", "_", "%", "+", "-"}
IsDomainCh(c) == IsAlpha(c) \/ IsDigit(c) \/ c \in {".", "-"}
IsTldCh(c) == IsAlpha(c) \/ c = "|"

RECURSIVE SkipLocal(_, _)
SkipLocal(s, i) == IF IsLocalCh(Ch(s, i)) THEN SkipLocal(s, i + 1) ELSE i

\* \b[A-Za-z0-9._%+-]+@[A-Za-z0-9.-]+\.[A-Z|a-z]{2,}\b
\* The local part is the whole run up to the '@'.  The domain and the
\* top-level part are greedy: the longest domain (ending before a '.' at
\* position m) for which a top-level part exists, then the longest top-level
\* part (ending at e) that ends on a word boundary.
EmailAt(s, i) ==
    LET n   == Len(s)
        at  == SkipLocal(s, i)
        ok(m, e) == /\ m >= at + 2 /\ e >= m + 2 /\ e <= n
                    /\ \A j \in (at + 1)..(m - 1) : IsDomainCh(Ch(s, j))
                    /\ Ch(s, m) = "."
                    /\ \A j \in (m + 1)..e : IsTldCh(Ch(s, j))
                    /\ Boundary(s, e + 1)
        M   == {m \in (at + 2)..n : \E e \in (m + 2)..n : ok(m, e)}
    IN  IF Boundary(s, i) /\ at > i /\ Ch(s, at) = "@" /\ M # {}
        THEN LET m == Max(M)
                 e == Max({x \in (m + 2)..n : ok(m, x)})
             IN  Match(<<>>, SubSeq(s, i, e))
        ELSE NoMatch

\* [-.]? from position i
SkipSep(s, i) == IF Ch(s, i) \in {"-", "."} THEN i + 1 ELSE i

AllDigits(s, a, b) == \A j \in a..b : IsDigit(Ch(s, j))

\* \b\d{3}[-.]?\d{3}[-.]?\d{4}\b
PhoneAt(s, i) ==
    LET j == SkipSep(s, i + 3)
        k == SkipSep(s, j + 3)
    IN  IF /\ Boundary(s, i) /\ AllDigits(s, i, i + 2) /\ AllDigits(s, j, j + 2)
           /\ AllDigits(s, k, k + 3) /\ Boundary(s, k + 4)
        THEN Match(<<>>, SubSeq(s, i, k + 3))
        ELSE NoMatch

\* the extraction taking any amount as the budget, whatever the words around it
extract_qualification_info_any_amount(user_input) ==
    LET price_match_q == search([i \in Positions(user_input) |-> BudgetAt(user_input, i)])
        email_match == search([i \in Positions(user_input) |-> EmailAt(user_input, i)])
        phone_match == search([i \in Positions(user_input) |-> PhoneAt(user_input, i)])
        budget == IF price_match_q.found
                  THEN [budget |-> _parse_price(price_match_q.groups[1])]
                  ELSE EmptyDict
        email == IF email_match.found THEN [email |-> email_match.text] ELSE EmptyDict
        phone == IF phone_match.found THEN [phone |-> phone_match.text] ELSE EmptyDict
    IN  update(update(budget, email), phone)

extract_qualification_info(user_input) ==
    LET price_match_q == search([i \in Positions(user_input) |-> BudgetAt(user_input, i)])
        email_match == search([i \in Positions(user_input) |-> EmailAt(user_input, i)])
        phone_match == search([i \in Positions(user_input) |-> PhoneAt(user_input, i)])
        budget == IF price_match_q.found /\ ContainsAny(lower(user_input), {"budget", "afford"})
                  THEN [budget |-> _parse_price(price_match_q.groups[1])]
                  ELSE EmptyDict
        email == IF email_match.found THEN [email |-> email_match.text] ELSE EmptyDict
        phone == IF phone_match.found THEN [phone |-> phone_match.text] ELSE EmptyDict
    IN  update(update(budget, email), phone)

required_fields == <<"budget", "timeline", "name", "email">>

\* [field for field in required_fields if field not in lead_info]
get_missing_qualification_fields(lead_info) ==
    SelectSeq(required_fields, LAMBDA field : field \notin DOMAIN lead_info)

days == <<"monday", "tuesday", "wednesday", "thursday", "friday", "saturday", "sunday">>

\* the day that occurs first in the text instead of first in the week
extract_scheduling_info_text_order(user_input) ==
    LET low  == lower(user_input)
        hits == {d \in 1..Len(days) : Contains(low, days[d])}
        at(d) == Min({i \in 1..(Len(low) - Len(days[d]) + 1) :
                            SubSeq(low, i, i + Len(days[d]) - 1) = days[d]})
    IN  IF hits = {} THEN EmptyDict
        ELSE [preferred_day |-> days[CHOOSE d \in hits : \A e \in hits : at(d) <= at(e)]]

\* the first day of `days` that occurs in the lower-cased text
extract_scheduling_info(user_input) ==
    LET low  == lower(user_input)
        hits == {d \in 1..Len(days) : Contains(low, days[d])}
    IN  IF hits = {} THEN EmptyDict ELSE [preferred_day |-> days[Min(hits)]]

\* five slots, one per day from tomorrow on; today is the day number of now()
get_available_slots(today) ==
    [i \in 1..5 |-> [date |-> today + 1 + (i - 1), time |-> "10:00 AM", available |-> TRUE]]

classify_info_request(user_input) ==
    IF ContainsAny(lower(user_input), {"market", "prices", "trends"}) THEN "market"
    ELSE IF ContainsAny(lower(user_input), {"neighborhood", "area", "schools"}) THEN "neighborhood"
    ELSE "general"

get_market_info(info_type) ==
    IF info_type = "market" THEN [average_price |-> "$425,000", trend |-> "+5.2% YoY"]
    ELSE IF info_type = "neighborhood" THEN [school_rating |-> "8/10", safety |-> "Above average"]
    ELSE IF info_type = "general" THEN [info |-> "General real estate information"]
    ELSE [info |-> "Information available"]

\* the keywords looked for in the text as typed, without lower()
analyze_escalation_need_case_sensitive(user_input) ==
    IF ContainsAny(user_input, {"complaint", "problem", "issue"})
    THEN "complaint" ELSE "general_inquiry"

analyze_escalation_need(user_input) ==
    IF ContainsAny(lower(user_input), {"complaint", "problem", "issue"})
    THEN "complaint" ELSE "general_inquiry"

determine_priority(escalation_reason) ==
    IF escalation_reason = "complaint" THEN "high"
    ELSE IF escalation_reason = "legal" THEN "urgent"
    ELSE "low"

\* save_lead_data without the try/except: an error of the store is raised
save_lead_data_uncaught(table, lead_info, insert_ok) ==
    [table |-> IF lead_info # EmptyDict /\ insert_ok THEN Append(table, lead_info) ELSE table,
     raised |-> lead_info # EmptyDict /\ ~insert_ok]

\* save_lead_data: the row is inserted into 'leads'; an error of the store is
\* caught and printed, never raised.  The table after the call, and whether
\* the call raised.
save_lead_data(table, lead_info, insert_ok) ==
    [table |-> IF lead_info # EmptyDict /\ insert_ok THEN Append(table, lead_info) ELSE table,
     raised |-> FALSE]

(***************************************************************************)
(* config_manager.py: AgentConfigManager.                                  *)
(***************************************************************************)
None == -1
_cache_ttl == 300
SecondsPerDay == 86400

\* timedelta.seconds of the non-negative difference d (days are a separate field)
seconds(d) == d % SecondsPerDay

_get_default_config ==
    [personality |-> "Professional, friendly, and knowledgeable real estate assistant who helps clients find their perfect home",
     system_prompt |-> "You are a helpful real estate assistant. Your role is to:\n1. Help users find properties that match their needs\n2. Qualify leads by understanding their budget, timeline, and preferences  \n3. Schedule property viewings and appointments\n4. Provide market information and neighborhood insights\n5. Guide users through the home buying/selling process\n6. Escalate complex issues to human agents when needed\n\nAlways be professional, empathetic, and solution-focused.",
     response_style |-> "conversational",
     max_response_length |-> 250,
     tools_enabled |-> <<"property_search", "lead_qualification", "schedule_viewing",
                         "market_info", "escalate_human">>,
     services |-> <<"Property Search", "Market Analysis", "Viewing Appointments",
                    "Buyer/Seller Guidance", "Neighborhood Information">>,
     greeting_message |-> "Hi! I'm your AI real estate assistant. I'm here to help you find your perfect home or answer any real estate questions you might have. How can I assist you today?",
     escalation_triggers |-> <<"complaint", "legal_question", "complex_negotiation",
                               "technical_issue">>,
     lead_qualification_fields |-> <<"budget_range", "preferred_location", "property_type",
                                     "timeline", "contact_info">>]

\* json.dumps / json.loads of a configuration: the stored value is the
\* serialised text; configurations hold JSON-native values only
json_dumps(config) == [json |-> config]
json_loads(value) == value.json

\* the 'agent_config' row of the settings table (updated_at, which nothing
\* reads, is left out)
SettingsRow(config, t) == [key |-> "agent_config", value |-> json_dumps(config)]

\* a fresh AgentConfigManager
NewManager == [_cache |-> EmptyDict, _cache_timestamp |-> None]

\* get_agent_config of manager m at time t, on the settings table rows:
\* the configuration returned, the manager and the table afterwards.
\* read_ok: the select succeeds; save_ok: the upsert of the default succeeds.
get_agent_config(m, rows, t, read_ok, save_ok) ==
    IF /\ m._cache_timestamp # None
       /\ seconds(t - m._cache_timestamp) < _cache_ttl
       /\ m._cache # EmptyDict
    THEN [config |-> m._cache, m |-> m, rows |-> rows]
    ELSE IF ~read_ok
    THEN [config |-> _get_default_config, m |-> m, rows |-> rows]
    ELSE IF rows # <<>>
    THEN [config |-> json_loads(rows[1].value),
          m |-> [_cache |-> json_loads(rows[1].value), _cache_timestamp |-> t],
          rows |-> rows]
    ELSE [config |-> _get_default_config,
          m |-> [_cache |-> _get_default_config, _cache_timestamp |-> t],
          rows |-> IF save_ok THEN <<SettingsRow(_get_default_config, t)>> ELSE rows]

\* update_agent_config: read, merge, upsert, clear the cache.  write_ok: the
\* upsert succeeds; when it fails the error is re-raised after the read's
\* effects on the cache.
update_agent_config(m, rows, t, updates, read_ok, save_ok, write_ok) ==
    LET g == get_agent_config(m, rows, t, read_ok, save_ok)
        updated_config == update(g.config, updates)
    IN  IF write_ok
        THEN [raised |-> FALSE, error |-> "", config |-> updated_config,
              m |-> NewManager, rows |-> <<SettingsRow(updated_config, t)>>]
        ELSE [raised |-> TRUE, error |-> "store error", config |-> EmptyDict,
              m |-> g.m, rows |-> g.rows]

get_personality_presets ==
    [professional |-> [personality |-> "Professional, formal, and detail-oriented real estate expert",
                       response_style |-> "formal",
                       greeting_message |-> "Good day! I am your professional real estate consultant. How may I assist you with your property needs today?"],
     friendly |-> [personality |-> "Warm, friendly, and approachable real estate helper who makes home buying fun",
                   response_style |-> "conversational",
                   greeting_message |-> "Hey there! I'm excited to help you find your dream home! What kind of place are you looking for?"],
     expert |-> [personality |-> "Highly knowledgeable real estate expert with deep market insights and analytical approach",
                 response_style |-> "informative",
                 greeting_message |-> "Hello! I'm your real estate market expert. I can provide detailed analysis and insights to help you make informed decisions. What would you like to know?"],
     luxury |-> [personality |-> "Sophisticated luxury real estate specialist focused on high-end properties and white-glove service",
                 response_style |-> "elegant",
                 greeting_message |-> "Welcome! I specialize in luxury real estate and premium properties. I'm here to provide you with exceptional service. How may I assist you today?"]]

\* apply_personality_preset without the membership check: an unknown name
\* is applied as an empty preset
apply_personality_preset_unchecked(m, rows, t, preset_name, read_ok, save_ok, write_ok) ==
    update_agent_config(m, rows, t, get(get_personality_presets, preset_name, EmptyDict),
                        read_ok, save_ok, write_ok)

\* apply_personality_preset: an unknown name raises ValueError before
\* anything is read or written
apply_personality_preset(m, rows, t, preset_name, read_ok, save_ok, write_ok) ==
    IF preset_name \notin DOMAIN get_personality_presets
    THEN [raised |-> TRUE, error |-> "Unknown personality preset: " \o preset_name,
          config |-> EmptyDict, m |-> m, rows |-> rows]
    ELSE update_agent_config(m, rows, t, get_personality_presets[preset_name],
                             read_ok, save_ok, write_ok)

\* the outcomes the settings store can have in one get_agent_config call:
\* <<read_ok, save_ok>>; no choice where the call does not reach the store
StoreOutcomes(m, rows, t) ==
    IF get_agent_config(m, rows, t, TRUE, TRUE) = get_agent_config(m, rows, t, FALSE, FALSE)
    THEN {<<TRUE, TRUE>>}
    ELSE IF rows # <<>> THEN {<<TRUE, TRUE>>, <<FALSE, TRUE>>}
    ELSE {<<TRUE, TRUE>>, <<TRUE, FALSE>>, <<FALSE, TRUE>>}

(***************************************************************************)
(* Bounds and inputs.                                                      *)
(***************************************************************************)
MaxTurns == 2
\* turns of the conversation in one run of SpecLive
MaxLiveTurns == 1

\* admin requests served in one run of SpecConfig
MaxAdminOps == 4
\* steps of the clock in one run of SpecConfig
MaxTicks == 2
\* how far the clock moves in one step: just under the cache's lifetime, a
\* day, and a day less that
TickSizes == {299, SecondsPerDay, SecondsPerDay - 299}
\* handler applications in one run of SpecHandler
MaxApplications == 2

\* preset names an admin asks for: two of the presets and two unknown names
PresetRequests == {"professional", "luxury", "casual", ""}

\* updates an admin posts
ConfigUpdates ==
    {[personality |-> "Concise broker"],
     [response_style |-> "formal", max_response_length |-> 100]}

\* SpecHandler: the lead_info a handler starts from
PriorLeads ==
    {[name |-> "Ann"],
     [budget |-> 100000],
     [email |-> "old@x.io", phone |-> "555-000-1111"],
     [budget |-> 300000, timeline |-> "3 months", name |-> "Ann"],
     [budget |-> 250000, email |-> "bob@x.io", phone |-> "555-123-4567", name |-> "Bob"],
     [email |-> "ann@x.io"]}

\* SpecHandler: the utterances a handler is applied to
HandlerInputs ==
    {"Hello",
     "my budget is $250k, mail bob@x.io or 555-123-4567",
     "the house costs $250k",
     "I can afford 1,200,000",
     "call me at 555.123.4567",
     "write to ann.lee@mail.example.com please",
     "budget 400K, bob@x.io",
     "my number is 5551234567 and my budget is tight",
     "my budget is $250k",
     "maybe Saturday or Tuesday works",
     "Is Sunday or MONDAY morning free?",
     "3 bed house, $200k to $350k",
     "Hi, I'm looking for a 3 bedroom house under $400k in Midtown",
     "under $500k, or $200k to $350k",
     "up to $300k but under $400k",
     "up to $300k",
     "$500k to $300k",
     "$300k to $500",
     "homes near Oak Park, or in a city",
     "near Soho",
     "I have a complaint",
     "There is an ISSUE with my agent",
     "I need a lawyer for a legal question"}

\* what the user types
Utterances ==
    {"Hello",
     "Hi, I'm looking for a 3 bedroom house under $400k in Midtown",
     "I am interested in a 3 bedroom house under $400k in Midtown",
     "my budget is $250k, mail bob@x.io or 555-123-4567"}

\* what the completion capability answers to the classification prompt
IntentReplies ==
    {"greeting", " Property_Search\n", "LEAD_QUALIFICATION", "schedule_viewing ",
     "general_info", "Escalate", "escalate."}

\* what it answers to the response prompt
ResponseReplies == {"Happy to help!", "Could you tell me more?"}

(***************************************************************************)
(* real_estate_agent.py: ConversationState and the nodes of the graph.     *)
(***************************************************************************)
\* a state built with a lead record already in it
ConversationState_with_lead(message, conversation_history) ==
    [messages |-> conversation_history,
     user_input |-> message,
     agent_response |-> "",
     current_step |-> "greeting",
     user_context |-> EmptyDict,
     lead_info |-> [name |-> "Ann", timeline |-> "3 months"],
     tools_used |-> <<>>]

\* ConversationState(user_input=message, messages=conversation_history or [])
ConversationState(message, conversation_history) ==
    [messages |-> conversation_history,
     user_input |-> message,
     agent_response |-> "",
     current_step |-> "greeting",
     user_context |-> EmptyDict,
     lead_info |-> EmptyDict,
     tools_used |-> <<>>]

Intents == {"greeting", "property_search", "lead_qualification",
            "schedule_viewing", "general_info", "escalate"}

\* state.messages[-3:]
LastThree(messages) ==
    SubSeq(messages, Max({1, Len(messages) - 2}), Len(messages))

\* the message list _analyze_intent sends to the completion capability
intent_prompt(config, st) ==
    << [role |-> "system",
        content |-> [personality |-> get(config, "personality", "Professional real estate assistant"),
                     user_input |-> st.user_input,
                     history |-> LastThree(st.messages)]] >>

\* classify without strip(): a reply with surrounding whitespace is not recognised
classify_unstripped(reply) ==
    LET intent == lower(reply)
    IN  IF intent \in Intents THEN intent ELSE "general_info"

\* response.content.strip().lower(), general_info when not one of the six
classify(reply) ==
    LET intent == lower(strip(reply))
    IN  IF intent \in Intents THEN intent ELSE "general_info"

\* analyze_intent also recording the user's message in messages
_analyze_intent_recording(st, reply) ==
    [st EXCEPT !.current_step = classify(reply),
               !.messages = Append(@, [role |-> "user", content |-> st.user_input])]

_analyze_intent(st, reply) == [st EXCEPT !.current_step = classify(reply)]

_route_conversation(st) == st.current_step

\* conditional edges with the escalate intent wired to the information node
conditional_edges_miswired ==
    [greeting |-> "greeting",
     property_search |-> "property_search",
     lead_qualification |-> "lead_qualification",
     schedule_viewing |-> "schedule_viewing",
     general_info |-> "provide_info",
     escalate |-> "provide_info"]

\* the mapping of add_conditional_edges("analyze_intent", ...)
conditional_edges ==
    [greeting |-> "greeting",
     property_search |-> "property_search",
     lead_qualification |-> "lead_qualification",
     schedule_viewing |-> "schedule_viewing",
     general_info |-> "provide_info",
     escalate |-> "escalate_human"]

HandlerNodes == {"greeting", "property_search", "lead_qualification",
                 "schedule_viewing", "provide_info", "escalate_human"}

\* edges where the greeting node leads on to another content node
edge_chained(node) ==
    IF node = "greeting" THEN "property_search"
    ELSE IF node \in {"property_search", "lead_qualification", "schedule_viewing",
                      "provide_info", "escalate_human"} THEN "generate_response"
    ELSE "END"

\* edges where the escalation node leads straight to END
edge_skipping(node) ==
    IF node \in HandlerNodes \ {"escalate_human"} THEN "generate_response" ELSE "END"

\* add_edge(node, "generate_response") for the six nodes, then
\* add_edge("generate_response", END)
edge(node) == IF node \in HandlerNodes THEN "generate_response" ELSE "END"

\* self.tools: the methods of RealEstateTools that take the utterance,
\* applied to the utterances of the model
tools ==
    [user_input \in Utterances \cup HandlerInputs |->
        [extract_search_criteria |-> extract_search_criteria(user_input),
         extract_qualification_info |-> extract_qualification_info(user_input),
         extract_scheduling_info |-> extract_scheduling_info(user_input),
         classify_info_request |-> classify_info_request(user_input),
         analyze_escalation_need |-> analyze_escalation_need(user_input)]]

_handle_greeting(st, config) ==
    [st EXCEPT !.user_context =
        update(@, [is_first_interaction |-> Len(st.messages) = 0,
                   personality |-> get(config, "personality", ""),
                   available_services |-> get(config, "services", <<>>)])]

\* what _handle_property_search puts in user_context for the criteria
property_search_context(search_criteria) ==
    [search_criteria |-> search_criteria,
     found_properties |-> search_properties(search_criteria),
     needs_more_criteria |-> Cardinality(DOMAIN search_criteria) < 3]

_handle_property_search(st) ==
    [st EXCEPT !.user_context =
                    update(@, property_search_context(tools[st.user_input].extract_search_criteria)),
               !.tools_used = Append(@, "property_search")]

\* the handler with lead_info replaced by the extraction instead of merged
_handle_lead_qualification_overwrite(st) ==
    LET qualification_data == tools[st.user_input].extract_qualification_info
    IN  [st EXCEPT !.lead_info = qualification_data,
                   !.user_context =
                        update(@, [qualification_complete |-> Cardinality(DOMAIN qualification_data) >= 4,
                                   missing_info |-> get_missing_qualification_fields(qualification_data)]),
                   !.tools_used = Append(@, "lead_qualification")]

_handle_lead_qualification(st) ==
    LET qualification_data == tools[st.user_input].extract_qualification_info
        lead_info == update(st.lead_info, qualification_data)
    IN  [st EXCEPT !.lead_info = lead_info,
                   !.user_context =
                        update(@, [qualification_complete |-> Cardinality(DOMAIN lead_info) >= 4,
                                   missing_info |-> get_missing_qualification_fields(lead_info)]),
                   !.tools_used = Append(@, "lead_qualification")]

\* not lead_info.get(key): the key is absent or its value is empty
Falsy(d, key) == key \notin DOMAIN d \/ d[key] = ""

_handle_schedule_viewing(st, today) ==
    LET scheduling_info == tools[st.user_input].extract_scheduling_info
    IN  [st EXCEPT !.user_context =
                        update(@, [scheduling_request |-> scheduling_info,
                                   available_slots |-> get_available_slots(today),
                                   needs_contact_info |-> Falsy(st.lead_info, "phone")
                                                          \/ Falsy(st.lead_info, "email")]),
                   !.tools_used = Append(@, "schedule_viewing")]

_provide_general_info(st) ==
    LET info_type == tools[st.user_input].classify_info_request
        relevant_info == get_market_info(info_type)
    IN  [st EXCEPT !.user_context =
                        update(@, [info_type |-> info_type, relevant_info |-> relevant_info]),
                   !.tools_used = Append(@, "general_info")]

_escalate_to_human(st) ==
    LET escalation_reason == tools[st.user_input].analyze_escalation_need
    IN  [st EXCEPT !.user_context =
                        update(@, [escalation_reason |-> escalation_reason,
                                   human_agent_needed |-> TRUE,
                                   priority_level |-> determine_priority(escalation_reason)]),
                   !.tools_used = Append(@, "escalate_human")]

\* the message list _generate_response sends to the completion capability
response_prompt(config, st) ==
    << [role |-> "system",
        content |-> [personality |-> get(config, "personality", "professional and friendly real estate assistant"),
                     system_prompt |-> get(config, "system_prompt", "Help users with real estate needs"),
                     current_step |-> st.current_step,
                     user_input |-> st.user_input,
                     context |-> st.user_context,
                     lead_info |-> st.lead_info,
                     tools_used |-> st.tools_used,
                     response_style |-> get(config, "response_style", "conversational"),
                     max_response_length |-> get(config, "max_response_length", 200)]],
       [role |-> "user", content |-> st.user_input] >>

\* generate_response appending the reply without the user's message
_generate_response_reply_only(st, reply) ==
    [st EXCEPT !.agent_response = reply,
               !.messages = @ \o << [role |-> "assistant", content |-> reply] >>]

_generate_response(st, reply) ==
    [st EXCEPT !.agent_response = reply,
               !.messages = @ \o << [role |-> "user", content |-> st.user_input],
                                    [role |-> "assistant", content |-> reply] >>]

\* the dictionary RealEstateAgent.chat returns from the final state
chat_result(final_state) ==
    [response |-> final_state.agent_response,
     conversation_history |-> final_state.messages,
     lead_info |-> final_state.lead_info,
     tools_used |-> final_state.tools_used,
     current_step |-> final_state.current_step]

(***************************************************************************)
(* chat.py: the /api/chat endpoint.                                        *)
(***************************************************************************)
Apology == "I'm sorry, I'm having trouble processing your request right now. Please try again."

\* ChatResponse built from the agent's result
ChatResponse(res) ==
    [response |-> res.response,
     conversation_history |-> res.conversation_history,
     lead_info |-> res.lead_info,
     tools_used |-> res.tools_used,
     current_step |-> res.current_step]

\* a fallback that leaves the user's message out of the transcript
fallback_response_without_user(chat_message) ==
    [response |-> Apology,
     conversation_history |-> chat_message.conversation_history \o
                              << [role |-> "assistant", content |-> Apology] >>,
     lead_info |-> EmptyDict,
     tools_used |-> <<>>,
     current_step |-> ""]

\* the except branch of the endpoint
fallback_response(chat_message) ==
    [response |-> Apology,
     conversation_history |-> chat_message.conversation_history \o
                              << [role |-> "user", content |-> chat_message.message],
                                 [role |-> "assistant", content |-> Apology] >>,
     lead_info |-> EmptyDict,
     tools_used |-> <<>>,
     current_step |-> ""]

(***************************************************************************)
(* State.                                                                  *)
(***************************************************************************)
VARIABLES
    now,          \* the clock, in seconds
    ticks,        \* the steps the clock has made
    settings,     \* the rows of the settings table with key 'agent_config'
    cm,           \* the two AgentConfigManager instances: agent's and admin's
    leads,        \* the rows of the leads table
    admin_reply,  \* the reply of the last admin request
    request,      \* the ChatMessage being served
    state,        \* the ConversationState of the turn
    pc,           \* the node the turn is at
    result,       \* the ChatResponse of the turn
    trace,        \* the nodes executed in the turn, in order
    llm_calls,    \* the completion calls of the turn: messages sent, reply
    save_outcome, \* what became of the turn's lead save
    conversation, \* the transcript the client holds and sends back
    turn_no,      \* the number of turns of the conversation so far
    known_lead,   \* the lead fields returned by earlier turns of the conversation
    lead_trace,   \* lead_info after each application of the handler (SpecHandler)
    turns,        \* the turns running concurrently on the agent (SpecConcurrent)
    objects       \* the dict and list objects their states refer to (SpecConcurrent)

vars == <<now, ticks, settings, cm, leads, admin_reply, request, state, pc, result, trace,
          llm_calls, save_outcome, conversation, turn_no, known_lead, lead_trace,
          turns, objects>>

configVars == <<now, ticks, settings, cm, admin_reply>>
clientVars == <<conversation, turn_no, known_lead>>
concurrentVars == <<turns, objects>>
NoRequest == [message |-> "", conversation_history |-> <<>>]
NoReply == [seq |-> 0, op |-> "", arg |-> "", status |-> 0, detail |-> "", config |-> EmptyDict]

(***************************************************************************)
(* Turns running concurrently on the one agent object of chat.py.  A       *)
(* ConversationState holds its dicts and its list by reference; objects    *)
(* maps what is referred to onto its present value.                        *)
(***************************************************************************)
Turns == {1, 2}

\* the fields of ConversationState declared with a mutable default ({} or [])
Fields == {"user_context", "lead_info", "tools_used"}

\* the default taken as the class attribute itself: one object for every
\* instance
field_default_shared(p, field) == <<1, field>>

\* pydantic's BaseModel copies a field's default for each instance it builds:
\* the instance of turn p gets objects of its own
field_default(p, field) == <<p, field>>

\* the state chat() builds for turn p, its mutable fields as references
Construct(p, message, conversation_history) ==
    [ConversationState(message, conversation_history)
        EXCEPT !.user_context = field_default(p, "user_context"),
               !.lead_info = field_default(p, "lead_info"),
               !.tools_used = field_default(p, "tools_used")]

\* no request has reached the endpoint for this turn yet
IdleTurn(p) ==
    [request |-> NoRequest,
     pc |-> "idle",
     stage |-> "entry",
     config |-> EmptyDict,
     state |-> Construct(p, "", <<>>),
     trace |-> <<>>,
     prompts |-> <<>>,
     replies |-> <<>>,
     result |-> ChatResponse(chat_result(ConversationState("", <<>>)))]

\* the defaults: {} for the dicts, [] for the list
NewObjects ==
    [id \in Turns \X Fields |-> IF id[2] = "tools_used" THEN <<>> ELSE EmptyDict]


Init ==
    /\ now = 0
    /\ ticks = 0
    /\ settings = <<SettingsRow(_get_default_config, 0)>>
    /\ cm = [agent |-> NewManager, admin |-> NewManager]
    /\ leads = <<>>
    /\ admin_reply = NoReply
    /\ request = NoRequest
    /\ state = ConversationState("", <<>>)
    /\ pc = "idle"
    /\ result = ChatResponse(chat_result(ConversationState("", <<>>)))
    /\ trace = <<>>
    /\ llm_calls = <<>>
    /\ save_outcome = "none"
    /\ conversation = <<>>
    /\ turn_no = 0
    /\ known_lead = EmptyDict
    /\ lead_trace = <<>>
    /\ turns = [p \in Turns |-> IdleTurn(p)]
    /\ objects = NewObjects

(***************************************************************************)
(* The chat endpoint and the steps of a turn.                              *)
(***************************************************************************)
\* POST /api/chat arrives: agent.chat builds the initial state
StartTurn(limit) ==
    /\ pc \in {"idle", "done", "failed"}
    /\ turn_no < limit
    /\ \E message \in Utterances :
        /\ request' = [message |-> message, conversation_history |-> conversation]
        /\ state' = ConversationState(message, conversation)
    /\ pc' = "analyze_intent"
    /\ trace' = <<>>
    /\ llm_calls' = <<>>
    /\ save_outcome' = "none"
    /\ turn_no' = turn_no + 1
    /\ UNCHANGED concurrentVars
    /\ UNCHANGED <<configVars, leads, result, conversation, known_lead, lead_trace>>

ChatRequest == StartTurn(MaxTurns)

\* the except branch of the endpoint: the turn ends with the apology
Fallback ==
    /\ result' = fallback_response(request)
    /\ conversation' = fallback_response(request).conversation_history
    /\ pc' = "failed"

\* the node analyze_intent, the completion call returning reply
AnalyzeIntent ==
    /\ pc = "analyze_intent"
    /\ \E o \in StoreOutcomes(cm.agent, settings, now), reply \in IntentReplies :
        LET g == get_agent_config(cm.agent, settings, now, o[1], o[2])
        IN  /\ cm' = [cm EXCEPT !.agent = g.m]
            /\ settings' = g.rows
            /\ llm_calls' = Append(llm_calls, [messages |-> intent_prompt(g.config, state),
                                               raised |-> FALSE, reply |-> reply])
            /\ state' = _analyze_intent(state, reply)
            /\ pc' = conditional_edges[_route_conversation(_analyze_intent(state, reply))]
    /\ trace' = Append(trace, "analyze_intent")
    /\ UNCHANGED concurrentVars
    /\ UNCHANGED <<now, ticks, admin_reply, leads, request, result, save_outcome, clientVars, lead_trace>>

\* the node analyze_intent, the completion call raising
AnalyzeIntentRaises ==
    /\ pc = "analyze_intent"
    /\ \E o \in StoreOutcomes(cm.agent, settings, now) :
        LET g == get_agent_config(cm.agent, settings, now, o[1], o[2])
        IN  /\ cm' = [cm EXCEPT !.agent = g.m]
            /\ settings' = g.rows
            /\ llm_calls' = Append(llm_calls, [messages |-> intent_prompt(g.config, state),
                                               raised |-> TRUE, reply |-> ""])
    /\ trace' = Append(trace, "analyze_intent")
    /\ Fallback
    /\ UNCHANGED concurrentVars
    /\ UNCHANGED <<now, ticks, admin_reply, leads, request, state, save_outcome, turn_no, known_lead,
                   lead_trace>>

HandleGreeting ==
    /\ pc = "greeting"
    /\ \E o \in StoreOutcomes(cm.agent, settings, now) :
        LET g == get_agent_config(cm.agent, settings, now, o[1], o[2])
        IN  /\ cm' = [cm EXCEPT !.agent = g.m]
            /\ settings' = g.rows
            /\ state' = _handle_greeting(state, g.config)
    /\ trace' = Append(trace, "greeting")
    /\ pc' = edge("greeting")
    /\ UNCHANGED concurrentVars
    /\ UNCHANGED <<now, ticks, admin_reply, leads, request, result, llm_calls, save_outcome,
                   clientVars, lead_trace>>

\* a content node that asks the completion capability as well
Handle_completing(node) ==
    /\ pc = node
    /\ trace' = Append(trace, node)
    /\ pc' = edge(node)
    /\ llm_calls' = Append(llm_calls, [messages |-> << [role |-> "user", content |-> state.user_input] >>,
                                       raised |-> FALSE, reply |-> ""])
    /\ UNCHANGED concurrentVars
    /\ UNCHANGED <<configVars, leads, request, result, save_outcome, clientVars, lead_trace>>

\* the part common to the nodes that use neither the configuration nor the
\* completion capability: the node runs when the graph is at it, and the
\* graph moves on along the node's edge
Handle(node) ==
    /\ pc = node
    /\ trace' = Append(trace, node)
    /\ pc' = edge(node)
    /\ UNCHANGED concurrentVars
    /\ UNCHANGED <<configVars, leads, request, result, llm_calls, save_outcome,
                   clientVars, lead_trace>>

HandlePropertySearch ==
    /\ Handle("property_search")
    /\ state' = _handle_property_search(state)

HandleLeadQualification ==
    /\ Handle("lead_qualification")
    /\ state' = _handle_lead_qualification(state)

HandleScheduleViewing ==
    /\ Handle("schedule_viewing")
    /\ state' = _handle_schedule_viewing(state, now \div SecondsPerDay)

ProvideGeneralInfo ==
    /\ Handle("provide_info")
    /\ state' = _provide_general_info(state)

EscalateToHuman ==
    /\ Handle("escalate_human")
    /\ state' = _escalate_to_human(state)

\* the node generate_response, the completion call returning reply
GenerateResponse ==
    /\ pc = "generate_response"
    /\ \E o \in StoreOutcomes(cm.agent, settings, now), reply \in ResponseReplies :
        LET g == get_agent_config(cm.agent, settings, now, o[1], o[2])
        IN  /\ cm' = [cm EXCEPT !.agent = g.m]
            /\ settings' = g.rows
            /\ llm_calls' = Append(llm_calls, [messages |-> response_prompt(g.config, state),
                                               raised |-> FALSE, reply |-> reply])
            /\ state' = _generate_response(state, reply)
    /\ trace' = Append(trace, "generate_response")
    /\ pc' = edge("generate_response")
    /\ UNCHANGED concurrentVars
    /\ UNCHANGED <<now, ticks, admin_reply, leads, request, result, save_outcome, clientVars, lead_trace>>

\* the node generate_response, the completion call raising
GenerateResponseRaises ==
    /\ pc = "generate_response"
    /\ \E o \in StoreOutcomes(cm.agent, settings, now) :
        LET g == get_agent_config(cm.agent, settings, now, o[1], o[2])
        IN  /\ cm' = [cm EXCEPT !.agent = g.m]
            /\ settings' = g.rows
            /\ llm_calls' = Append(llm_calls, [messages |-> response_prompt(g.config, state),
                                               raised |-> TRUE, reply |-> ""])
    /\ trace' = Append(trace, "generate_response")
    /\ Fallback
    /\ UNCHANGED concurrentVars
    /\ UNCHANGED <<now, ticks, admin_reply, leads, request, state, save_outcome, turn_no, known_lead,
                   lead_trace>>

\* chat() handing the final lead_info to save_lead_data whether or not it is
\* empty
Finish_saving_unconditionally ==
    /\ pc = "END"
    /\ \E insert_ok \in BOOLEAN :
        /\ leads' = save_lead_data(leads, state.lead_info, insert_ok).table
        /\ save_outcome' = IF insert_ok THEN "saved" ELSE "error"
    /\ result' = ChatResponse(chat_result(state))
    /\ conversation' = chat_result(state).conversation_history
    /\ known_lead' = update(known_lead, chat_result(state).lead_info)
    /\ pc' = "done"
    /\ UNCHANGED concurrentVars
    /\ UNCHANGED <<configVars, request, state, trace, llm_calls, turn_no, lead_trace>>

\* the graph has ended: chat() saves the lead when there is one and returns;
\* the endpoint answers with the result, or with the apology if chat() raised
Finish ==
    /\ pc = "END"
    /\ \E insert_ok \in (IF state.lead_info # EmptyDict THEN BOOLEAN ELSE {TRUE}) :
        LET saved == IF state.lead_info # EmptyDict
                     THEN save_lead_data(leads, state.lead_info, insert_ok)
                     ELSE [table |-> leads, raised |-> FALSE]
        IN  /\ leads' = saved.table
            /\ save_outcome' = IF state.lead_info = EmptyDict THEN "skipped"
                               ELSE IF insert_ok THEN "saved" ELSE "error"
            /\ IF saved.raised
               THEN /\ Fallback
                    /\ UNCHANGED known_lead
               ELSE /\ result' = ChatResponse(chat_result(state))
                    /\ conversation' = chat_result(state).conversation_history
                    /\ known_lead' = update(known_lead, chat_result(state).lead_info)
                    /\ pc' = "done"
    /\ UNCHANGED concurrentVars
    /\ UNCHANGED <<configVars, request, state, trace, llm_calls, turn_no, lead_trace>>

Next ==
    \/ ChatRequest
    \/ AnalyzeIntent
    \/ AnalyzeIntentRaises
    \/ HandleGreeting
    \/ HandlePropertySearch
    \/ HandleLeadQualification
    \/ HandleScheduleViewing
    \/ ProvideGeneralInfo
    \/ EscalateToHuman
    \/ GenerateResponse
    \/ GenerateResponseRaises
    \/ Finish

Spec == Init /\ [][Next]_vars

\* a step of the turn in progress: ainvoke runs the graph node by node, and a
\* node whose awaited calls return (or raise) completes
TurnStep ==
    \/ AnalyzeIntent
    \/ AnalyzeIntentRaises
    \/ HandleGreeting
    \/ HandlePropertySearch
    \/ HandleLeadQualification
    \/ HandleScheduleViewing
    \/ ProvideGeneralInfo
    \/ EscalateToHuman
    \/ GenerateResponse
    \/ GenerateResponseRaises
    \/ Finish

\* the turns with every awaited call answered: a turn in progress is not
\* left waiting for ever
ChatRequestLive == StartTurn(MaxLiveTurns)

NextLive ==
    \/ ChatRequestLive
    \/ TurnStep

SpecLive == Init /\ [][NextLive]_vars /\ WF_vars(TurnStep)

(***************************************************************************)
(* Two requests in flight on the agent: a turn gives way to the other at   *)
(* the awaited completion calls and between the nodes of the graph.        *)
(***************************************************************************)
\* request bodies POSTed to /api/chat while another turn is running
ConcurrentRequests ==
    {[message |-> "Hello", conversation_history |-> <<>>],
     [message |-> "my budget is $250k, mail bob@x.io or 555-123-4567",
      conversation_history |-> <<>>],
     [message |-> "budget 400K, bob@x.io",
      conversation_history |-> <<[role |-> "user", content |-> "Hello"],
                                 [role |-> "assistant", content |-> "Happy to help!"]>>]}

\* the state a node receives: the fields read through their references
deref(st, objs) ==
    [st EXCEPT !.user_context = objs[st.user_context],
               !.lead_info = objs[st.lead_info],
               !.tools_used = objs[st.tools_used]]

StateOf(p) == deref(turns[p].state, objects)

\* update(), item assignment and append() act on the object referred to
mutate(objs, refs, st) ==
    [id \in DOMAIN objs |->
        IF id = refs.tools_used THEN st.tools_used
        ELSE IF id = refs.lead_info THEN st.lead_info
        ELSE IF id = refs.user_context THEN st.user_context
        ELSE objs[id]]

\* the state a node returns: the same instance, its references unchanged
rebind(refs, st) ==
    [st EXCEPT !.user_context = refs.user_context,
               !.lead_info = refs.lead_info,
               !.tools_used = refs.tools_used]

\* the node run on st: the method graph.add_node registers under the name
run_node(node, st, config, today) ==
    CASE node = "greeting" -> _handle_greeting(st, config)
      [] node = "property_search" -> _handle_property_search(st)
      [] node = "lead_qualification" -> _handle_lead_qualification(st)
      [] node = "schedule_viewing" -> _handle_schedule_viewing(st, today)
      [] node = "provide_info" -> _provide_general_info(st)
      [] node = "escalate_human" -> _escalate_to_human(st)

\* turn p has completed node, leaving st, and the graph is at next; replies
\* are the completion replies the turn has received so far
Completed(p, node, st, next, replies) ==
    /\ turns' = [turns EXCEPT ![p].state = rebind(turns[p].state, st),
                              ![p].trace = Append(@, node),
                              ![p].replies = replies,
                              ![p].stage = "entry",
                              ![p].pc = next]
    /\ objects' = mutate(objects, turns[p].state, st)

\* what belongs to the turns taken one at a time
OneTurnVars == <<request, state, pc, result, trace, llm_calls, save_outcome, clientVars,
                 lead_trace>>

\* POST /api/chat arrives for turn p: agent.chat builds the initial state
ConcurrentStart(p) ==
    /\ turns[p].pc = "idle"
    /\ \E req \in ConcurrentRequests :
        turns' = [turns EXCEPT ![p] =
                     [IdleTurn(p) EXCEPT !.request = req,
                                         !.pc = "analyze_intent",
                                         !.state = Construct(p, req.message,
                                                             req.conversation_history)]]
    /\ UNCHANGED <<objects, configVars, leads>>
    /\ UNCHANGED OneTurnVars

\* the nodes that begin with config = await get_agent_config()
ConfiguredNodes == {"analyze_intent", "greeting", "generate_response"}

\* turn p, entering such a node, fetches the configuration through the
\* agent's config_manager
ConcurrentFetchConfig(p) ==
    /\ turns[p].pc \in ConfiguredNodes
    /\ turns[p].stage = "entry"
    /\ \E o \in StoreOutcomes(cm.agent, settings, now) :
        LET g == get_agent_config(cm.agent, settings, now, o[1], o[2])
        IN  /\ cm' = [cm EXCEPT !.agent = g.m]
            /\ settings' = g.rows
            /\ turns' = [turns EXCEPT ![p].config = g.config, ![p].stage = "config"]
    /\ UNCHANGED <<objects, now, ticks, admin_reply, leads>>
    /\ UNCHANGED OneTurnVars

\* _analyze_intent up to await llm.ainvoke: the prompt is built and the
\* completion call is made
ConcurrentAnalyzeCall(p) ==
    /\ turns[p].pc = "analyze_intent"
    /\ turns[p].stage = "config"
    /\ turns' = [turns EXCEPT ![p].prompts = Append(@, intent_prompt(turns[p].config, StateOf(p))),
                              ![p].stage = "await"]
    /\ UNCHANGED <<objects, configVars, leads>>
    /\ UNCHANGED OneTurnVars

\* _analyze_intent from its await on: the call returns reply
ConcurrentAnalyzeReturn(p) ==
    /\ turns[p].pc = "analyze_intent"
    /\ turns[p].stage = "await"
    /\ \E reply \in IntentReplies :
        Completed(p, "analyze_intent", _analyze_intent(StateOf(p), reply),
                  conditional_edges[_route_conversation(_analyze_intent(StateOf(p), reply))],
                  Append(turns[p].replies, reply))
    /\ UNCHANGED <<configVars, leads>>
    /\ UNCHANGED OneTurnVars

\* the node greeting of turn p, the configuration fetched
ConcurrentHandleGreeting(p) ==
    /\ turns[p].pc = "greeting"
    /\ turns[p].stage = "config"
    /\ Completed(p, "greeting",
                 run_node("greeting", StateOf(p), turns[p].config, now \div SecondsPerDay),
                 edge("greeting"), turns[p].replies)
    /\ UNCHANGED <<configVars, leads>>
    /\ UNCHANGED OneTurnVars

\* a content node of turn p other than greeting: no await inside
ConcurrentHandle(p) ==
    /\ turns[p].pc \in HandlerNodes \ {"greeting"}
    /\ Completed(p, turns[p].pc,
                 run_node(turns[p].pc, StateOf(p), EmptyDict, now \div SecondsPerDay),
                 edge(turns[p].pc), turns[p].replies)
    /\ UNCHANGED <<configVars, leads>>
    /\ UNCHANGED OneTurnVars

\* _generate_response up to await llm.ainvoke
ConcurrentGenerateCall(p) ==
    /\ turns[p].pc = "generate_response"
    /\ turns[p].stage = "config"
    /\ turns' = [turns EXCEPT ![p].prompts = Append(@, response_prompt(turns[p].config, StateOf(p))),
                              ![p].stage = "await"]
    /\ UNCHANGED <<objects, configVars, leads>>
    /\ UNCHANGED OneTurnVars

\* _generate_response from its await on: the call returns reply
ConcurrentGenerateReturn(p) ==
    /\ turns[p].pc = "generate_response"
    /\ turns[p].stage = "await"
    /\ \E reply \in ResponseReplies :
        Completed(p, "generate_response", _generate_response(StateOf(p), reply),
                  edge("generate_response"), Append(turns[p].replies, reply))
    /\ UNCHANGED <<configVars, leads>>
    /\ UNCHANGED OneTurnVars

\* the graph of turn p has ended: chat() saves the lead when there is one
\* and returns, and the endpoint answers with the result
ConcurrentFinish(p) ==
    /\ turns[p].pc = "END"
    /\ \E insert_ok \in (IF StateOf(p).lead_info # EmptyDict THEN BOOLEAN ELSE {TRUE}) :
        leads' = IF StateOf(p).lead_info # EmptyDict
                 THEN save_lead_data(leads, StateOf(p).lead_info, insert_ok).table
                 ELSE leads
    /\ turns' = [turns EXCEPT ![p].result = ChatResponse(chat_result(StateOf(p))),
                              ![p].pc = "done"]
    /\ UNCHANGED <<objects, configVars>>
    /\ UNCHANGED OneTurnVars

NextConcurrent ==
    \/ \E p \in Turns : ConcurrentStart(p)
    \/ \E p \in Turns : ConcurrentFetchConfig(p)
    \/ \E p \in Turns : ConcurrentAnalyzeCall(p)
    \/ \E p \in Turns : ConcurrentAnalyzeReturn(p)
    \/ \E p \in Turns : ConcurrentHandleGreeting(p)
    \/ \E p \in Turns : ConcurrentHandle(p)
    \/ \E p \in Turns : ConcurrentGenerateCall(p)
    \/ \E p \in Turns : ConcurrentGenerateReturn(p)
    \/ \E p \in Turns : ConcurrentFinish(p)

SpecConcurrent == Init /\ [][NextConcurrent]_vars

(***************************************************************************)
(* The admin endpoints of chat.py, on the endpoint's own config_manager.   *)
(***************************************************************************)
Reply(op, arg, r) ==
    [seq |-> admin_reply.seq + 1, op |-> op, arg |-> arg,
     status |-> IF r.raised THEN 500 ELSE 200,
     detail |-> r.error, config |-> r.config]

\* GET /api/config
AdminGetConfig ==
    /\ admin_reply.seq < MaxAdminOps
    /\ \E o \in StoreOutcomes(cm.admin, settings, now) :
        LET g == get_agent_config(cm.admin, settings, now, o[1], o[2])
        IN  /\ cm' = [cm EXCEPT !.admin = g.m]
            /\ settings' = g.rows
            /\ admin_reply' = Reply("get_agent_config", "",
                                    [raised |-> FALSE, error |-> "", config |-> g.config])
    /\ UNCHANGED concurrentVars
    /\ UNCHANGED <<now, ticks, leads, request, state, pc, result, trace, llm_calls, save_outcome,
                   clientVars, lead_trace>>

\* POST /api/agent/config
AdminUpdateConfig ==
    /\ admin_reply.seq < MaxAdminOps
    /\ \E updates \in ConfigUpdates, o \in StoreOutcomes(cm.admin, settings, now),
          write_ok \in BOOLEAN :
        LET r == update_agent_config(cm.admin, settings, now, updates, o[1], o[2], write_ok)
        IN  /\ cm' = [cm EXCEPT !.admin = r.m]
            /\ settings' = r.rows
            /\ admin_reply' = Reply("update_agent_config", "", r)
    /\ UNCHANGED concurrentVars
    /\ UNCHANGED <<now, ticks, leads, request, state, pc, result, trace, llm_calls, save_outcome,
                   clientVars, lead_trace>>

\* POST /api/agent/preset/{preset_name}
AdminApplyPreset ==
    /\ admin_reply.seq < MaxAdminOps
    /\ \E preset_name \in PresetRequests, o \in StoreOutcomes(cm.admin, settings, now),
          write_ok \in BOOLEAN :
        LET r == apply_personality_preset(cm.admin, settings, now, preset_name,
                                          o[1], o[2], write_ok)
        IN  /\ cm' = [cm EXCEPT !.admin = r.m]
            /\ settings' = r.rows
            /\ admin_reply' = Reply("apply_personality_preset", preset_name, r)
    /\ UNCHANGED concurrentVars
    /\ UNCHANGED <<now, ticks, leads, request, state, pc, result, trace, llm_calls, save_outcome,
                   clientVars, lead_trace>>

\* time passes
Tick ==
    /\ \E d \in TickSizes :
        /\ ticks < MaxTicks
        /\ now' = now + d
        /\ ticks' = ticks + 1
    /\ UNCHANGED concurrentVars
    /\ UNCHANGED <<settings, cm, admin_reply, leads, request, state, pc, result, trace,
                   llm_calls, save_outcome, clientVars, lead_trace>>

InitConfig ==
    /\ Init
    /\ settings = <<SettingsRow(_get_default_config, 0)>>

NextConfig ==
    \/ AdminGetConfig
    \/ AdminUpdateConfig
    \/ AdminApplyPreset
    \/ Tick

SpecConfig == InitConfig /\ [][NextConfig]_vars

(***************************************************************************)
(* The admin panel and the chat running on the same service: admin         *)
(* requests are served between the turns of a conversation of greetings.   *)
(***************************************************************************)
BetweenTurns == pc \in {"idle", "done", "failed"}

\* POST /api/agent/config and POST /api/agent/preset/{preset_name}
AdminUpdateBetweenTurns == BetweenTurns /\ AdminUpdateConfig

AdminPresetBetweenTurns == BetweenTurns /\ AdminApplyPreset

\* POST /api/chat with the message 'Hello'
GreetingRequest == ChatRequest /\ request'.message = "Hello"

\* analyze_intent with the completion call answering 'greeting'
GreetingAnalyzeIntent == AnalyzeIntent /\ state'.current_step = "greeting"

\* generate_response with the completion call answering 'Happy to help!'
GreetingGenerateResponse == GenerateResponse /\ state'.agent_response = "Happy to help!"

NextAdminChat ==
    \/ GreetingRequest
    \/ GreetingAnalyzeIntent
    \/ HandleGreeting
    \/ GreetingGenerateResponse
    \/ Finish
    \/ AdminUpdateBetweenTurns
    \/ AdminPresetBetweenTurns

SpecAdminChat == Init /\ [][NextAdminChat]_vars

(***************************************************************************)
(* A handler applied directly to a state, any number of times.             *)
(***************************************************************************)
InitHandler ==
    /\ now = 0
    /\ ticks = 0
    /\ settings = <<SettingsRow(_get_default_config, 0)>>
    /\ cm = [agent |-> NewManager, admin |-> NewManager]
    /\ leads = <<>>
    /\ admin_reply = NoReply
    /\ request = NoRequest
    /\ \E message \in HandlerInputs, prior \in PriorLeads :
        /\ state = [ConversationState(message, <<>>) EXCEPT !.lead_info = prior]
        /\ lead_trace = <<prior>>
    /\ pc = "handler"
    /\ result = ChatResponse(chat_result(ConversationState("", <<>>)))
    /\ trace = <<>>
    /\ llm_calls = <<>>
    /\ save_outcome = "none"
    /\ conversation = <<>>
    /\ turn_no = 0
    /\ known_lead = EmptyDict
    /\ turns = [p \in Turns |-> IdleTurn(p)]
    /\ objects = NewObjects

ApplyLeadQualification ==
    /\ pc = "handler"
    /\ Len(trace) < MaxApplications
    /\ state' = _handle_lead_qualification(state)
    /\ trace' = Append(trace, "lead_qualification")
    /\ lead_trace' = Append(lead_trace, _handle_lead_qualification(state).lead_info)
    /\ UNCHANGED concurrentVars
    /\ UNCHANGED <<configVars, leads, request, pc, result, llm_calls, save_outcome, clientVars>>

ApplyPropertySearch ==
    /\ pc = "handler"
    /\ Len(trace) < MaxApplications
    /\ state' = _handle_property_search(state)
    /\ trace' = Append(trace, "property_search")
    /\ UNCHANGED concurrentVars
    /\ UNCHANGED <<configVars, leads, request, pc, result, llm_calls, save_outcome, clientVars,
                   lead_trace>>

ApplyScheduleViewing ==
    /\ pc = "handler"
    /\ Len(trace) < MaxApplications
    /\ state' = _handle_schedule_viewing(state, now \div SecondsPerDay)
    /\ trace' = Append(trace, "schedule_viewing")
    /\ UNCHANGED concurrentVars
    /\ UNCHANGED <<configVars, leads, request, pc, result, llm_calls, save_outcome, clientVars,
                   lead_trace>>

ApplyEscalateToHuman ==
    /\ pc = "handler"
    /\ Len(trace) < MaxApplications
    /\ state' = _escalate_to_human(state)
    /\ trace' = Append(trace, "escalate_human")
    /\ UNCHANGED concurrentVars
    /\ UNCHANGED <<configVars, leads, request, pc, result, llm_calls, save_outcome, clientVars,
                   lead_trace>>

NextHandler ==
    \/ ApplyLeadQualification
    \/ ApplyPropertySearch
    \/ ApplyScheduleViewing
    \/ ApplyEscalateToHuman

SpecHandler == InitHandler /\ [][NextHandler]_vars

(***************************************************************************)
(* Properties.                                                             *)
(***************************************************************************)
\* the content nodes executed in the turn so far
HandlersRun == SelectSeq(trace, LAMBDA n : n \in HandlerNodes)

\* the turn has been classified: analyze_intent ran and its completion call returned
Classified == Len(llm_calls) >= 1 /\ ~llm_calls[1].raised

\* the label each classification reply stands for: the reply trimmed and
\* lower-cased when that is a label, general_info otherwise
ExpectedIntent ==
    [r \in IntentReplies |->
        CASE r = "greeting" -> "greeting"
          [] r = " Property_Search\n" -> "property_search"
          [] r = "LEAD_QUALIFICATION" -> "lead_qualification"
          [] r = "schedule_viewing " -> "schedule_viewing"
          [] r = "general_info" -> "general_info"
          [] r = "Escalate" -> "escalate"
          [] OTHER -> "general_info"]

\* C1: after classification current_step is one of the six labels: the label
\* the reply, trimmed and lower-cased, equals, and general_info for any
\* other reply.
C1_IntentIsOneOfSix ==
    Classified =>
        /\ state.current_step \in {"greeting", "property_search", "lead_qualification",
                                   "schedule_viewing", "general_info", "escalate"}
        /\ state.current_step = ExpectedIntent[llm_calls[1].reply]

\* an unrecognised reply has been classified as general_info
C1_Witness ==
    /\ Classified
    /\ llm_calls[1].reply = "escalate."
    /\ state.current_step = "general_info"
    /\ pc = "provide_info"

\* C2: a completed turn has executed exactly one content handler, once;
\* no turn ever executes two.
C2_ExactlyOneHandler ==
    /\ Len(HandlersRun) <= 1
    /\ pc = "done" => Len(HandlersRun) = 1

C2_Witness ==
    /\ pc = "done"
    /\ trace = <<"analyze_intent", "greeting", "generate_response">>

\* the handler the claim assigns to each intent
HandlerOfIntent ==
    [greeting |-> "greeting",
     property_search |-> "property_search",
     lead_qualification |-> "lead_qualification",
     schedule_viewing |-> "schedule_viewing",
     general_info |-> "provide_info",
     escalate |-> "escalate_human"]

\* C3: the handler that runs is the one of the classified intent, and the
\* turn returns the classified intent as current_step.
C3_RoutingFaithful ==
    /\ (Classified /\ Len(HandlersRun) >= 1) =>
            HandlersRun[1] = HandlerOfIntent[ExpectedIntent[llm_calls[1].reply]]
    /\ pc = "done" =>
            /\ Len(HandlersRun) >= 1
            /\ result.current_step = ExpectedIntent[llm_calls[1].reply]

C3_Witness ==
    /\ pc = "done"
    /\ llm_calls[1].reply = "Escalate"
    /\ HandlersRun = <<"escalate_human">>
    /\ result.current_step = "escalate"

\* C4: a turn in which a step raised answers with the apology and with the
\* incoming history followed by the user's message and the apology.
C4_FailureKeepsTranscript ==
    pc = "failed" =>
        /\ result.response = Apology
        /\ result.conversation_history =
                request.conversation_history \o
                << [role |-> "user", content |-> request.message],
                   [role |-> "assistant", content |-> Apology] >>

\* response generation raised in a turn that came with a history
C4_Witness ==
    /\ pc = "failed"
    /\ Len(request.conversation_history) > 0
    /\ Len(llm_calls) = 2
    /\ llm_calls[2].raised

\* C5: a completed turn returns the prior messages followed by the user's
\* message and the assistant's reply; agent_response is empty until
\* generate_response, the last step, writes the reply.
C5_TurnAppendsPair ==
    /\ pc = "done" =>
            /\ result.conversation_history =
                    request.conversation_history \o
                    << [role |-> "user", content |-> request.message],
                       [role |-> "assistant", content |-> result.response] >>
            /\ result.response = llm_calls[2].reply
            /\ trace[Len(trace)] = "generate_response"
            /\ Len(SelectSeq(trace, LAMBDA n : n = "generate_response")) = 1
    /\ pc \in {"analyze_intent", "generate_response"} \cup HandlerNodes =>
            /\ state.agent_response = ""
            /\ state.messages = request.conversation_history

C5_Witness ==
    /\ pc = "done"
    /\ Len(request.conversation_history) = 2
    /\ result.response = "Could you tell me more?"
    /\ Len(result.conversation_history) = 4

\* C6: applying a preset whose name is not one of the four presets answers
\* with an error that names the preset, and leaves the settings table, the
\* cache and its timestamp as they were.
C6_UnknownPresetNoMutation ==
    [][ ( /\ admin_reply'.seq # admin_reply.seq
          /\ admin_reply'.op = "apply_personality_preset"
          /\ admin_reply'.arg \notin {"professional", "friendly", "expert", "luxury"} )
        => ( /\ admin_reply'.status = 500
             /\ Contains(admin_reply'.detail, admin_reply'.arg)
             /\ admin_reply'.detail # ""
             /\ settings' = settings
             /\ cm' = cm ) ]_vars

\* an unknown preset was refused while a changed configuration was stored
\* and the cache was filled
C6_Witness ==
    /\ admin_reply.op = "apply_personality_preset"
    /\ admin_reply.arg = "casual"
    /\ admin_reply.status = 500
    /\ cm.admin._cache # EmptyDict
    /\ settings # <<>>
    /\ json_loads(settings[1].value) # _get_default_config

\* C7: applying the lead_qualification handler a second time to the same
\* input leaves lead_info as the first application left it; every key
\* present before is still present, and keys the input cannot supply keep
\* their values.
C7_LeadMergeIdempotent ==
    /\ Len(lead_trace) >= 3 => lead_trace[3] = lead_trace[2]
    /\ \A k \in 1..Len(lead_trace) :
            /\ DOMAIN lead_trace[1] \subseteq DOMAIN lead_trace[k]
            /\ \A key \in DOMAIN lead_trace[1] \ {"budget", "email", "phone"} :
                    lead_trace[k][key] = lead_trace[1][key]

\* the handler ran twice on a state with a budget and a name, replacing the
\* budget and adding an email
C7_Witness ==
    /\ Len(lead_trace) = 3
    /\ lead_trace[1] = [budget |-> 300000, timeline |-> "3 months", name |-> "Ann"]
    /\ lead_trace[3] = [budget |-> 400000, timeline |-> "3 months", name |-> "Ann",
                        email |-> "bob@x.io"]

\* C8: the lead fields returned by earlier turns of the conversation are
\* still in the lead_info a later turn returns.
C8_LeadAccumulates ==
    pc = "done" => DOMAIN known_lead \subseteq DOMAIN result.lead_info

\* the criteria the claim expects for utterances with "<b> bedroom",
\* "under $Nk" and "in <Place>"
ExpectedCriteria ==
    [u \in {"Hi, I'm looking for a 3 bedroom house under $400k in Midtown",
            "I am interested in a 3 bedroom house under $400k in Midtown"} |->
        [bedrooms |-> 3, price_max |-> 400000, location |-> "Midtown"]]

\* C9: an utterance with "<b> bedroom", "under $Nk" and "in <Place>" routed
\* to property_search yields exactly {bedrooms, price_max, location} and
\* needs_more_criteria false.
C9_SearchCriteriaExact ==
    ( /\ HandlersRun = <<"property_search">>
      /\ state.user_input \in DOMAIN ExpectedCriteria )
    => /\ state.user_context.search_criteria = ExpectedCriteria[state.user_input]
       /\ state.user_context.needs_more_criteria = FALSE

\* C10: a turn whose lead save failed ends like one whose save succeeded:
\* it returns the reply, the messages, the lead_info, the tools_used and the
\* current_step of the final state, not the apology.
C10_SaveFailureNotPropagated ==
    save_outcome = "error" =>
        /\ pc = "done"
        /\ result = [response |-> state.agent_response,
                     conversation_history |-> state.messages,
                     lead_info |-> state.lead_info,
                     tools_used |-> state.tools_used,
                     current_step |-> state.current_step]
        /\ result.response = llm_calls[2].reply
        /\ result.response # Apology

C10_Witness ==
    /\ pc = "done"
    /\ save_outcome = "error"
    /\ result.lead_info = [budget |-> 250000, email |-> "bob@x.io", phone |-> "555-123-4567"]
    /\ result.tools_used = <<"lead_qualification">>

\* the handler applied last
LastApplied == IF trace = <<>> THEN "" ELSE trace[Len(trace)]

\* C12: after the lead_qualification handler, qualification_complete is true
\* exactly when at least 4 fields of the required set budget, timeline, name,
\* email are in lead_info; a phone does not count.
C12_CompleteCountsRequired ==
    LastApplied = "lead_qualification" =>
        state.user_context.qualification_complete =
            (Cardinality({"budget", "timeline", "name", "email"} \cap DOMAIN state.lead_info) >= 4)

\* C13: after the schedule_viewing handler, needs_contact_info is true
\* exactly when lead_info has neither a phone nor an email.
C13_ContactNeededWhenBothMissing ==
    LastApplied = "schedule_viewing" =>
        state.user_context.needs_contact_info =
            (Falsy(state.lead_info, "phone") /\ Falsy(state.lead_info, "email"))

\* C14: after the property_search handler, needs_more_criteria is false
\* exactly when a price bound, a bedroom count and a location were all
\* extracted from the utterance.
C14_MoreCriteriaUnlessAllThree ==
    LastApplied = "property_search" =>
        state.user_context.needs_more_criteria =
            ~ ( /\ {"price_min", "price_max"} \cap DOMAIN state.user_context.search_criteria # {}
                /\ "bedrooms" \in DOMAIN state.user_context.search_criteria
                /\ "location" \in DOMAIN state.user_context.search_criteria )

\* C15: a completed turn returns a tools_used of exactly one entry, the name
\* of the handler that ran (its node or its intent), whichever of the six
\* intents the turn was classified as.
C15_ToolsUsedNamesHandler ==
    pc = "done" =>
        /\ Len(result.tools_used) = 1
        /\ result.tools_used[1] \in {HandlersRun[1], result.current_step}

\* the weekday the claim expects for each utterance: the earliest day of the
\* week named in it, "" when it names none
ExpectedDay ==
    [u \in HandlerInputs |->
        CASE u = "maybe Saturday or Tuesday works" -> "tuesday"
          [] u = "Is Sunday or MONDAY morning free?" -> "monday"
          [] OTHER -> ""]

\* C16: the scheduling request holds as preferred_day the earliest day of
\* the week named in the utterance, whatever the order in the text and the
\* case, and no preferred_day when the utterance names no day.
C16_PreferredDayWeekOrder ==
    "scheduling_request" \in DOMAIN state.user_context =>
        state.user_context.scheduling_request =
            (IF ExpectedDay[state.user_input] = "" THEN EmptyDict
             ELSE [preferred_day |-> ExpectedDay[state.user_input]])

\* Saturday comes first in the text, Tuesday first in the week
C16_Witness ==
    /\ LastApplied = "schedule_viewing"
    /\ state.user_input = "maybe Saturday or Tuesday works"
    /\ state.user_context.scheduling_request = [preferred_day |-> "tuesday"]

\* the utterances that contain the word budget or afford
BudgetWorded ==
    {"my budget is $250k, mail bob@x.io or 555-123-4567",
     "I can afford 1,200,000",
     "budget 400K, bob@x.io",
     "my number is 5551234567 and my budget is tight",
     "my budget is $250k"}

\* C17: the lead_qualification handler sets or changes the budget only for
\* an utterance with the word budget or afford: without the word the budget
\* stays as it was (absent if it was absent), and 'my budget is $250k'
\* gives the budget 250000.
C17_BudgetNeedsKeyword ==
    \A k \in 2..Len(lead_trace) :
        /\ state.user_input \notin BudgetWorded =>
                /\ ("budget" \in DOMAIN lead_trace[k]) = ("budget" \in DOMAIN lead_trace[k - 1])
                /\ "budget" \in DOMAIN lead_trace[k] =>
                        lead_trace[k].budget = lead_trace[k - 1].budget
        /\ state.user_input = "my budget is $250k" =>
                /\ "budget" \in DOMAIN lead_trace[k]
                /\ lead_trace[k].budget = 250000

\* an amount without the word: the lead has no budget after the handler
C17_Witness ==
    /\ LastApplied = "lead_qualification"
    /\ state.user_input = "the house costs $250k"
    /\ lead_trace = <<[name |-> "Ann"], [name |-> "Ann"]>>
    /\ state.user_context.missing_info = <<"budget", "timeline", "email">>

\* the step sequences of a turn: analyze_intent, one content handler,
\* generate_response, and their prefixes
StepSequences ==
    {<<>>, <<"analyze_intent">>}
        \cup {<<"analyze_intent", h>> : h \in HandlerNodes}
        \cup {<<"analyze_intent", h, "generate_response">> : h \in HandlerNodes}

\* C18: the steps of a turn are analyze_intent, one content handler and
\* generate_response, in this order and once each; a turn that has started
\* ends, and it ends after generate_response unless a call raised.
C18_TurnRunsToEnd ==
    /\ [](trace \in StepSequences)
    /\ [](pc = "done" => /\ Len(trace) = 3
                         /\ trace[3] = "generate_response"
                         /\ \A i \in 1..Len(llm_calls) : ~llm_calls[i].raised)
    /\ [](pc = "failed" => \E i \in 1..Len(llm_calls) : llm_calls[i].raised)
    /\ (pc = "analyze_intent" ~> pc \in {"done", "failed"})

\* a turn has run through the escalation node and ended
C18_Witness ==
    /\ pc = "done"
    /\ trace = <<"analyze_intent", "escalate_human", "generate_response">>
    /\ result.tools_used = <<"escalate_human">>
    /\ result.response = "Happy to help!"

\* the steps of the turn so far that call the completion capability
CompletionSteps ==
    SelectSeq(trace, LAMBDA n : n \in {"analyze_intent", "generate_response"})

\* C19: the completion capability is called once by analyze_intent and once
\* by generate_response, never by a content handler and never again: a
\* completed turn has made exactly two calls, the classification prompt
\* before the handler and the response prompt after it.
C19_TwoCompletionCalls ==
    /\ Len(llm_calls) = Len(CompletionSteps)
    /\ pc \in HandlerNodes \cup {"generate_response"} =>
            /\ Len(llm_calls) = 1
            /\ Len(llm_calls[1].messages) = 1
            /\ llm_calls[1].messages[1].role = "system"
    /\ pc = "done" =>
            /\ Len(llm_calls) = 2
            /\ trace[1] = "analyze_intent" /\ trace[2] \in HandlerNodes
            /\ trace[3] = "generate_response"
            /\ llm_calls[1].messages[1].content.user_input = request.message
            /\ Len(llm_calls[2].messages) = 2
            /\ llm_calls[2].messages[2] = [role |-> "user", content |-> request.message]
            /\ llm_calls[2].messages[1].content.tools_used = result.tools_used

C19_Witness ==
    /\ pc = "done"
    /\ Len(llm_calls) = 2
    /\ trace[2] = "lead_qualification"
    /\ llm_calls[1].reply = "LEAD_QUALIFICATION"
    /\ llm_calls[2].reply = "Could you tell me more?"

\* the steps of a turn
TurnNodes == HandlerNodes \cup {"analyze_intent", "generate_response", "END"}

\* C20: while a turn runs no step changes user_input; analyze_intent and
\* the content handlers leave messages and agent_response alone; messages
\* only grows, and only in generate_response.
C20_FrameOfTurnSteps ==
    [][ (pc \in TurnNodes) =>
            ( /\ state'.user_input = state.user_input
              /\ pc \in HandlerNodes \cup {"analyze_intent"} =>
                      /\ state'.messages = state.messages
                      /\ state'.agent_response = state.agent_response
              /\ Len(state'.messages) >= Len(state.messages)
              /\ SubSeq(state'.messages, 1, Len(state.messages)) = state.messages
              /\ state'.messages # state.messages => pc = "generate_response" ) ]_vars

\* generate_response has extended the messages of a turn that came with a history
C20_Witness ==
    /\ pc = "END"
    /\ Len(request.conversation_history) = 2
    /\ Len(state.messages) = 4
    /\ state.user_input = request.message
    /\ state.agent_response = "Happy to help!"

\* what the steps turn t has completed make of its own request and of the
\* replies its own completion calls returned
after_intent(t, st) ==
    IF Len(t.replies) >= 1 THEN _analyze_intent(st, t.replies[1]) ELSE st

after_handler(t, st, today) ==
    IF Len(t.trace) >= 2
    THEN run_node(conditional_edges[_route_conversation(st)], st, _get_default_config, today)
    ELSE st

after_response(t, st) ==
    IF Len(t.replies) >= 2 THEN _generate_response(st, t.replies[2]) ELSE st

TurnAlone(t, today) ==
    after_response(t,
        after_handler(t,
            after_intent(t, ConversationState(t.request.message,
                                              t.request.conversation_history)),
            today))

\* C11: with two turns interleaving on the shared agent, the state of each
\* turn (messages, user_context, lead_info, tools_used, current_step,
\* agent_response) and its result are what its own request, prior messages
\* and completion replies give: nothing written by the other turn shows.
C11_TurnsIsolated ==
    \A p \in Turns :
        /\ StateOf(p) = TurnAlone(turns[p], now \div SecondsPerDay)
        /\ turns[p].pc = "done" =>
               turns[p].result = ChatResponse(chat_result(TurnAlone(turns[p], now \div SecondsPerDay)))

\* both turns have run their lead handler on different inputs and both are
\* suspended in the completion call of generate_response
C11_Witness ==
    /\ \A p \in Turns :
        /\ turns[p].pc = "generate_response"
        /\ turns[p].stage = "await"
        /\ turns[p].trace = <<"analyze_intent", "lead_qualification">>
    /\ turns[1].request.message # turns[2].request.message
    /\ StateOf(1).lead_info # StateOf(2).lead_info
    /\ StateOf(1).tools_used = <<"lead_qualification">>

\* the lead sink has been invoked in the turn
SinkInvoked == save_outcome \in {"saved", "error"}

\* C21: the lead sink is invoked only by a turn that has run generate_response
\* and has its agent_response, only with a non-empty lead_info, and at most
\* once; a turn that fails never invokes it.  The leads table changes only
\* in the step that ends a turn, by the one row of the turn's lead_info.
C21_SinkOnceAfterResponse ==
    /\ [](SinkInvoked =>
            /\ pc = "done"
            /\ trace = <<"analyze_intent", trace[2], "generate_response">>
            /\ Len(llm_calls) = 2
            /\ state.agent_response = llm_calls[2].reply
            /\ state.lead_info # EmptyDict)
    /\ [](pc = "failed" => save_outcome = "none")
    /\ [][ /\ (leads' # leads \/ save_outcome' \in {"saved", "error"}) =>
                 ( /\ pc = "END"
                   /\ pc' = "done"
                   /\ save_outcome \notin {"saved", "error"}
                   /\ state.lead_info # EmptyDict
                   /\ leads' \in {leads, Append(leads, state.lead_info)} )
           /\ pc' = "failed" => leads' = leads ]_vars

\* a lead turn has ended with its lead saved after the reply was generated
C21_Witness ==
    /\ pc = "done"
    /\ save_outcome = "saved"
    /\ leads # <<>>
    /\ leads[Len(leads)] = state.lead_info
    /\ trace = <<"analyze_intent", "lead_qualification", "generate_response">>
    /\ state.agent_response = llm_calls[2].reply

\* the price keys of a criteria dictionary
PriceKeys(criteria) == DOMAIN criteria \cap {"price_min", "price_max"}

\* the three shapes of a price, each anywhere in the text
HasRange(s) == \E i \in Positions(s) : RangeAt(s, i).found
HasUnder(s) == \E i \in Positions(s) : UnderAt(s, i).found
HasUpTo(s) == \E i \in Positions(s) : UpToAt(s, i).found

\* the amounts of the leftmost occurrence of a shape
LeftmostRange(s) == RangeAt(s, Min({i \in Positions(s) : RangeAt(s, i).found})).groups
LeftmostUnder(s) == UnderAt(s, Min({i \in Positions(s) : UnderAt(s, i).found})).groups
LeftmostUpTo(s) == UpToAt(s, Min({i \in Positions(s) : UpToAt(s, i).found})).groups

\* C22: the price of the search criteria comes from the range when the text
\* has one anywhere, else from 'under', else from 'up to'; a range gives
\* price_min and price_max, an upper-bound phrase price_max only, and the
\* shapes of lower priority contribute nothing, wherever they stand.
C22_PriceShapePriority ==
    LastApplied = "property_search" =>
        LET s == state.user_input
            c == state.user_context.search_criteria
        IN  IF HasRange(s)
            THEN /\ PriceKeys(c) = {"price_min", "price_max"}
                 /\ c.price_min = _parse_price(LeftmostRange(s)[1])
                 /\ c.price_max = _parse_price(LeftmostRange(s)[2])
            ELSE IF HasUnder(s)
            THEN /\ PriceKeys(c) = {"price_max"}
                 /\ c.price_max = _parse_price(LeftmostUnder(s)[1])
            ELSE IF HasUpTo(s)
            THEN /\ PriceKeys(c) = {"price_max"}
                 /\ c.price_max = _parse_price(LeftmostUpTo(s)[1])
            ELSE PriceKeys(c) = {}

\* an 'under' phrase stands before the range and the range decides
C22_Witness ==
    /\ LastApplied = "property_search"
    /\ state.user_input = "under $500k, or $200k to $350k"
    /\ HasUnder(state.user_input)
    /\ state.user_context.search_criteria = [price_min |-> 200000, price_max |-> 350000]

\* where the pattern of a preposition has a match whose capture, trimmed,
\* is longer than 2 characters
LongCaptures(s, prep) ==
    {i \in Positions(s) : /\ PrepAt(s, i, prep).found
                          /\ Len(strip(PrepAt(s, i, prep).groups[1])) > 2}

\* the capture of the leftmost such match
FirstLongCapture(s, prep) == strip(PrepAt(s, Min(LongCaptures(s, prep)), prep).groups[1])

\* C23: location is set whenever 'in <words>' or 'near <words>' has a match
\* with a capture longer than 2 characters, to the first such capture with
\* 'in' tried before 'near'; it is absent only when neither has one.
C23_LocationFromFirstLongCapture ==
    LastApplied = "property_search" =>
        LET s == state.user_input
            c == state.user_context.search_criteria
        IN  IF LongCaptures(s, "in") # {}
            THEN "location" \in DOMAIN c /\ c.location = FirstLongCapture(s, "in")
            ELSE IF LongCaptures(s, "near") # {}
            THEN "location" \in DOMAIN c /\ c.location = FirstLongCapture(s, "near")
            ELSE "location" \notin DOMAIN c

\* the utterances of the model that have complaint, problem or issue in
\* them, in any case
ComplaintWorded == {"I have a complaint", "There is an ISSUE with my agent"}

\* C24: the escalate handler always sets human_agent_needed, sets
\* escalation_reason to complaint when the lower-cased input has complaint,
\* problem or issue in it and to general_inquiry otherwise, and
\* priority_level by complaint -> high, legal -> urgent, anything else -> low.
C24_EscalationReasonAndPriority ==
    /\ determine_priority("complaint") = "high"
    /\ determine_priority("legal") = "urgent"
    /\ determine_priority("general_inquiry") = "low"
    /\ LastApplied = "escalate_human" =>
        /\ state.user_context.human_agent_needed = TRUE
        /\ state.user_context.escalation_reason =
               (IF state.user_input \in ComplaintWorded THEN "complaint" ELSE "general_inquiry")
        /\ state.user_context.priority_level =
               (IF state.user_input \in ComplaintWorded THEN "high" ELSE "low")
        /\ state.tools_used[Len(state.tools_used)] = "escalate_human"

\* an upper-case ISSUE has been escalated as a complaint of high priority
C24_Witness ==
    /\ LastApplied = "escalate_human"
    /\ state.user_input = "There is an ISSUE with my agent"
    /\ state.user_context.escalation_reason = "complaint"
    /\ state.user_context.priority_level = "high"
    /\ state.user_context.human_agent_needed

\* the last admin request was an update or a preset, and it succeeded
UpdateSucceeded ==
    /\ admin_reply.op \in {"update_agent_config", "apply_personality_preset"}
    /\ admin_reply.status = 200

\* the prompt of a completion call shows the values of config
BuiltFrom(call, config) ==
    LET content == call.messages[1].content
    IN  /\ content.personality = config.personality
        /\ "response_style" \in DOMAIN content =>
               /\ content.response_style = config.response_style
               /\ content.system_prompt = config.system_prompt
               /\ content.max_response_length = config.max_response_length

\* C25: a turn that starts after an update or a preset has succeeded builds
\* its classification prompt and its response prompt from the updated
\* configuration (a call whose read of the store failed, and which
\* therefore shows the built-in default, is not held against the claim).
C25_TurnSeesUpdatedConfig ==
    (UpdateSucceeded /\ ~BetweenTurns) =>
        \A i \in 1..Len(llm_calls) :
            \/ BuiltFrom(llm_calls[i], admin_reply.config)
            \/ BuiltFrom(llm_calls[i], _get_default_config)

\* C26: a get_agent_config that finds the cache entry 300 seconds old or
\* older, a day or more included, goes to the store: it either caches what
\* it read with the present time, or, the read having failed, answers with
\* the built-in default.  It never answers from the cache.
C26_OldCacheIsReread ==
    [][ ( /\ admin_reply'.seq # admin_reply.seq
          /\ admin_reply'.op = "get_agent_config"
          /\ cm.admin._cache_timestamp # None
          /\ now - cm.admin._cache_timestamp >= _cache_ttl ) =>
            ( \/ cm'.admin._cache_timestamp = now
              \/ admin_reply'.config = _get_default_config ) ]_vars

\* the configuration in the settings table
Stored(rows) == json_loads(rows[1].value)

\* the updates an admin request answered by reply may have carried
UpdatesOf(reply) ==
    IF reply.op = "apply_personality_preset"
    THEN {get_personality_presets[reply.arg]}
    ELSE ConfigUpdates

\* C27: an update that writes to the store changes only the keys it names:
\* the configuration stored afterwards is the one stored before with the
\* updates laid over it, also when the read of the current configuration
\* failed and the write succeeded.
C27_UpdateKeepsOtherKeys ==
    [][ ( /\ admin_reply'.seq # admin_reply.seq
          /\ admin_reply'.op \in {"update_agent_config", "apply_personality_preset"}
          /\ admin_reply'.status = 200 ) =>
            \E updates \in UpdatesOf(admin_reply') :
                Stored(settings') = update(Stored(settings), updates) ]_vars

\* the last admin request was a get_agent_config whose read of the store
\* failed: it answered with the built-in default although neither the store
\* nor the cache holds the default
LastGetFailed ==
    /\ admin_reply.op = "get_agent_config"
    /\ admin_reply.config = _get_default_config
    /\ Stored(settings) # _get_default_config
    /\ cm.admin._cache # _get_default_config

\* C28: a get_agent_config whose read of the store fails returns the
\* built-in default (or the cache while it is fresh) without raising and
\* leaves the cache, its timestamp and the store as they were; and the call
\* that follows a failed one goes to the store again: it caches what it
\* reads with the present time, or fails again and answers with the default.
C28_ReadFailureIsTransient ==
    /\ [](LET g == get_agent_config(cm.admin, settings, now, FALSE, TRUE)
          IN  /\ g.m = cm.admin
              /\ g.rows = settings
              /\ g.config \in {_get_default_config, cm.admin._cache})
    /\ [][ ( /\ LastGetFailed
             /\ admin_reply'.seq # admin_reply.seq
             /\ admin_reply'.op = "get_agent_config" ) =>
               ( \/ cm'.admin._cache_timestamp = now
                 \/ admin_reply'.config = _get_default_config ) ]_vars

\* the elements of a sequence
Range(seq) == {seq[i] : i \in DOMAIN seq}

\* C29: in a turn run through chat(), whatever the conversation before it,
\* lead_info is empty until the handler has run; after the handler of a
\* lead_qualification turn it has keys among budget, email and phone only,
\* qualification_complete is false and missing_info has timeline and name.
C29_LeadStartsEmptyEachTurn ==
    /\ pc \in HandlerNodes \cup {"analyze_intent"} => state.lead_info = EmptyDict
    /\ (Len(trace) >= 2 /\ trace[2] = "lead_qualification") =>
        /\ DOMAIN state.lead_info \subseteq {"budget", "email", "phone"}
        /\ state.user_context.qualification_complete = FALSE
        /\ {"timeline", "name"} \subseteq Range(state.user_context.missing_info)

\* the second turn of a conversation whose first turn returned a lead is a
\* lead_qualification turn again
C29_Witness ==
    /\ turn_no = 2
    /\ known_lead # EmptyDict
    /\ Len(request.conversation_history) = 2
    /\ pc = "generate_response"
    /\ trace = <<"analyze_intent", "lead_qualification">>
    /\ DOMAIN state.lead_info = {"budget", "email", "phone"}
    /\ state.user_context.missing_info = <<"timeline", "name">>

\* C30: whenever the search criteria have both price_min and price_max,
\* price_min is at most price_max, whatever the two amounts and whichever
\* of them carries a k.
C30_PriceRangeOrdered ==
    LastApplied = "property_search" =>
        LET c == state.user_context.search_criteria
        IN  {"price_min", "price_max"} \subseteq DOMAIN c => c.price_min <= c.price_max

====
